---- MODULE Spec2Model ----
(***************************************************************************)
(* awl: synchronising a module's __all__ declaration with its imports.     *)
(*                                                                         *)
(* A source text is a sequence of lexical tokens; every token is the       *)
(* string of characters it stands for, so the text's bytes are the         *)
(* concatenation of its tokens and two texts are byte-identical exactly    *)
(* when their token sequences are equal.  Punctuation and blanks are       *)
(* one-character tokens; identifiers, string literals, import clauses and  *)
(* comments are one token each.                                            *)
(***************************************************************************)
EXTENDS Integers, Sequences, FiniteSets, TLC

\* file: the content of the file the functions are called on; files: the
\* contents of the files main is run on; new_all: the names given to
\* update_dunder_all; calls: the calls made so far
VARIABLES file, files, new_all, calls

vars == <<file, files, new_all, calls>>

----------------------------------------------------------------------------
(* Bounds of the model *)

\* units (lines or multi-line statements) an initial text is made of
MaxUnits == 3
\* blank lines in front of an initial text given to process_file
MaxPad == 5
\* calls made on one file
MaxCalls == 2
\* blanks in the indent given to _format_new_block
MaxIndent == 2
\* files main is run on
MaxFiles == 3

----------------------------------------------------------------------------
(* Tokens *)

NL == "\n"
SP == " "
SEMI == ";"
EQ == "="
LBR == "["
RBR == "]"
COMMA == ","
DUNDER_ALL == "__all__"

LongName == "long_xxxxxxxxxxxxxxxxxxxxxxxxxxxxxxxxxxxxxxxxxxxxxxxxxxxxxxxxxxxxxxxxxxxxxxxxxxxxxxxxxxxxxxxxxxxxxxxxxxxxx"

\* the identifiers that occur as import names, in code-point order
\* ('_' is 0x5F, before the lower-case letters)
CodePointOrder == <<"_p", "a", "b", LongName>>

Names == {CodePointOrder[i] : i \in DOMAIN CodePointOrder}

\* name.startswith("_") over Names
StartsWithUnderscore(name) == name \in {"_p"}

Quote(name) == "\"" \o name \o "\""

StrLits == {Quote(n) : n \in Names}

Idents == {DUNDER_ALL, "x"}

Numbers == {"1"}

Calls == {"get_all()"}

\* comment tokens; awl's directives are comments of the form "# <marker>"
AWL_DIRECTIVES ==
    [ignore_file |-> "# awl:ignore",
     include_private |-> "# awl:include-private",
     exclude_public |-> "# awl:exclude-public"]

Comments == {"# note", AWL_DIRECTIVES.ignore_file,
             AWL_DIRECTIVES.include_private, AWL_DIRECTIVES.exclude_public}

\* marker in line: the substring test, over the tokens of a line.  No marker
\* is a substring of another token of the universe, and none spans tokens.
Contains(line, marker) == \E i \in DOMAIN line : line[i] = marker

\* import clauses, with the aliases ast gives for them: alias.name split
\* at "." and alias.asname ("" for None)
Alias(segs, asname) == [name |-> segs, asname |-> asname]

ImportTable ==
    [t \in {"import a", "import b", "import b.a as _p", "from m import a, _p",
            "from m import *"} |->
        CASE t = "import a" -> [from |-> FALSE, names |-> <<Alias(<<"a">>, "")>>]
          [] t = "import b" -> [from |-> FALSE, names |-> <<Alias(<<"b">>, "")>>]
          [] t = "import b.a as _p" ->
                [from |-> FALSE, names |-> <<Alias(<<"b", "a">>, "_p")>>]
          [] t = "from m import a, _p" ->
                [from |-> TRUE,
                 names |-> <<Alias(<<"a">>, ""), Alias(<<"_p">>, "")>>]
          [] t = "from m import *" ->
                [from |-> TRUE, names |-> <<Alias(<<"*">>, "")>>]]

Imports == DOMAIN ImportTable

----------------------------------------------------------------------------
(* Texts and lines *)

RECURSIVE Join(_)
\* "".join(lines)
Join(lines) ==
    IF lines = <<>> THEN <<>> ELSE Head(lines) \o Join(Tail(lines))

RECURSIVE SplitFrom(_, _, _)
SplitFrom(code, i, cur) ==
    IF i > Len(code)
    THEN IF cur = <<>> THEN <<>> ELSE <<cur>>
    ELSE IF code[i] = NL
         THEN <<Append(cur, NL)>> \o SplitFrom(code, i + 1, <<>>)
         ELSE SplitFrom(code, i + 1, Append(cur, code[i]))

\* code.splitlines(keepends=True)
SplitLinesKeepEnds(code) == SplitFrom(code, 1, <<>>)

StripEnd(line) ==
    IF line # <<>> /\ line[Len(line)] = NL
    THEN SubSeq(line, 1, Len(line) - 1)
    ELSE line

\* code.splitlines()
SplitLines(code) ==
    LET ls == SplitLinesKeepEnds(code)
    IN  [i \in DOMAIN ls |-> StripEnd(ls[i])]

RECURSIVE StrLen(_)
\* len(s) of the string a token sequence stands for
StrLen(toks) ==
    IF toks = <<>> THEN 0 ELSE Len(Head(toks)) + StrLen(Tail(toks))

RECURSIVE LeadingSpaces(_)
\* line[: len(line) - len(line.lstrip())]
LeadingSpaces(line) ==
    IF line # <<>> /\ Head(line) \in {SP, NL}
    THEN <<Head(line)>> \o LeadingSpaces(Tail(line))
    ELSE <<>>

----------------------------------------------------------------------------
(* ast.parse, for the statements the texts are made of: imports, (chained) *)
(* assignments of a name, a constant, a call or a list display, and        *)
(* expression statements; several statements on a line separated by ';',   *)
(* comments, blank lines, list displays running over several lines.  The   *)
(* result is tree.body, or ok = FALSE where ast.parse raises SyntaxError.  *)

NoValue == [kind |-> "None", elts |-> <<>>]

\* a statement of tree.body
\* (first and last: the positions in the text of the statement's first and
\* last token, for lineno/col_offset and end_lineno/end_col_offset)
Node(type, lineno, end_lineno, first, last, names, targets, value) ==
    [type |-> type, lineno |-> lineno, end_lineno |-> end_lineno,
     first |-> first, last |-> last,
     names |-> names, targets |-> targets, value |-> value]

\* an element of a list display: ast.Constant (with its value) or not
Elt(tok) ==
    IF tok \in StrLits THEN [const |-> TRUE, str |-> TRUE, tok |-> tok]
    ELSE IF tok \in Numbers THEN [const |-> TRUE, str |-> FALSE, tok |-> tok]
    ELSE [const |-> FALSE, str |-> FALSE, tok |-> tok]

InitPS ==
    [ok |-> TRUE, st |-> "bol", line |-> 1, pos |-> 0, body |-> <<>>,
     lineno |-> 0, first |-> 0, last |-> 0,
     targets |-> <<>>, pend |-> "", elts |-> <<>>, ret |-> ""]

Fail(ps) == [ps EXCEPT !.ok = FALSE]

\* the statement being read is complete, with the given value; its last
\* token is at position last
Complete(ps, value, last) ==
    [ps EXCEPT
        !.body = Append(@, Node(IF ps.targets = <<>> THEN "Expr" ELSE "Assign",
                                ps.lineno, ps.line, ps.first, last,
                                <<>>, ps.targets, value)),
        !.targets = <<>>, !.pend = "", !.elts = <<>>, !.st = "end"]

\* after a complete statement: ';', a comment or the end of the line
AfterStmt(ps, tok) ==
    CASE tok = SP -> ps
      [] tok = SEMI -> [ps EXCEPT !.st = "aftersemi"]
      [] tok = NL -> [ps EXCEPT !.st = "bol", !.line = @ + 1]
      [] tok \in Comments -> [ps EXCEPT !.st = "comment"]
      [] OTHER -> Fail(ps)

\* the first token of a statement
StartStmt(ps, tok) ==
    CASE tok \in Imports ->
            [ps EXCEPT
                !.body = Append(@, Node(IF ImportTable[tok].from
                                        THEN "ImportFrom" ELSE "Import",
                                        ps.line, ps.line, ps.pos, ps.pos,
                                        ImportTable[tok].names, <<>>, NoValue)),
                !.st = "end"]
      [] tok \in Idents ->
            [ps EXCEPT !.lineno = ps.line, !.first = ps.pos, !.last = ps.pos,
                       !.targets = <<>>, !.pend = tok, !.st = "name"]
      [] tok \in StrLits \cup Numbers \cup Calls ->
            Complete([ps EXCEPT !.lineno = ps.line, !.first = ps.pos,
                                !.targets = <<>>],
                     [kind |-> "Other", elts |-> <<>>], ps.pos)
      [] tok = LBR ->
            [ps EXCEPT !.lineno = ps.line, !.first = ps.pos, !.targets = <<>>,
                       !.elts = <<>>, !.st = "lopen"]
      [] OTHER -> Fail(ps)

\* a name has been read: an assignment target if '=' follows, else the value
AfterName(ps, tok) ==
    CASE tok = EQ ->
            [ps EXCEPT !.targets = Append(@, ps.pend), !.pend = "", !.st = "eq"]
      [] tok = SP -> [ps EXCEPT !.st = "name_sp"]
      [] tok \in {SEMI, NL} \cup Comments ->
            AfterStmt(Complete(ps, [kind |-> "Name", elts |-> <<>>], ps.last), tok)
      [] tok \in Idents \cup Numbers /\ ps.st = "name" ->
            \* no blank between them: one longer identifier
            [ps EXCEPT !.pend = @ \o tok, !.last = ps.pos]
      [] OTHER -> Fail(ps)

\* inside a list display
InList(ps, tok) ==
    CASE tok = SP -> ps
      [] tok = NL -> [ps EXCEPT !.line = @ + 1]
      [] tok \in Comments -> [ps EXCEPT !.ret = ps.st, !.st = "lcomment"]
      [] tok = RBR -> Complete(ps, [kind |-> "List", elts |-> ps.elts], ps.pos)
      [] tok = COMMA /\ ps.st = "lelt" -> [ps EXCEPT !.st = "lopen"]
      [] tok \in StrLits \cup Numbers \cup Idents /\ ps.st = "lopen" ->
            [ps EXCEPT !.elts = Append(@, Elt(tok)), !.st = "lelt"]
      [] OTHER -> Fail(ps)

Step(ps, tok) ==
    CASE ps.st = "bol" ->
            (CASE tok = SP -> [ps EXCEPT !.st = "indent"]
               [] tok = NL -> [ps EXCEPT !.line = @ + 1]
               [] tok \in Comments -> [ps EXCEPT !.st = "comment"]
               [] OTHER -> StartStmt(ps, tok))
      [] ps.st = "indent" ->
            \* a statement after blanks at the top level: unexpected indent
            (CASE tok = SP -> ps
               [] tok = NL -> [ps EXCEPT !.st = "bol", !.line = @ + 1]
               [] tok \in Comments -> [ps EXCEPT !.st = "comment"]
               [] OTHER -> Fail(ps))
      [] ps.st = "aftersemi" ->
            (CASE tok = SP -> ps
               [] tok = NL -> [ps EXCEPT !.st = "bol", !.line = @ + 1]
               [] tok \in Comments -> [ps EXCEPT !.st = "comment"]
               [] OTHER -> StartStmt(ps, tok))
      [] ps.st \in {"name", "name_sp"} -> AfterName(ps, tok)
      [] ps.st = "eq" ->
            (CASE tok = SP -> ps
               [] tok \in Idents ->
                    [ps EXCEPT !.pend = tok, !.last = ps.pos, !.st = "name"]
               [] tok \in StrLits \cup Numbers ->
                    Complete(ps, [kind |-> "Constant", elts |-> <<>>], ps.pos)
               [] tok \in Calls ->
                    Complete(ps, [kind |-> "Call", elts |-> <<>>], ps.pos)
               [] tok = LBR -> [ps EXCEPT !.elts = <<>>, !.st = "lopen"]
               [] OTHER -> Fail(ps))
      [] ps.st = "end" -> AfterStmt(ps, tok)
      [] ps.st = "comment" ->
            IF tok = NL THEN [ps EXCEPT !.st = "bol", !.line = @ + 1] ELSE ps
      [] ps.st = "lcomment" ->
            IF tok = NL THEN [ps EXCEPT !.st = ps.ret, !.line = @ + 1] ELSE ps
      [] ps.st \in {"lopen", "lelt"} -> InList(ps, tok)
      [] OTHER -> Fail(ps)

RECURSIVE Scan(_, _, _)
Scan(code, i, ps) ==
    IF i > Len(code) \/ ~ps.ok THEN ps
    ELSE Scan(code, i + 1, Step([ps EXCEPT !.pos = i], code[i]))

\* the end of the text
AtEnd(ps) ==
    CASE ~ps.ok -> ps
      [] ps.st \in {"name", "name_sp"} ->
            Complete(ps, [kind |-> "Name", elts |-> <<>>], ps.last)
      [] ps.st \in {"bol", "indent", "aftersemi", "end", "comment"} -> ps
      [] OTHER -> Fail(ps)

\* ast.parse(code): [ok, body]
ast_parse(code) ==
    LET ps == AtEnd(Scan(code, 1, InitPS))
    IN  [ok |-> ps.ok, body |-> IF ps.ok THEN ps.body ELSE <<>>]

----------------------------------------------------------------------------
(* core.py *)

\* the first lines of a file in which a marker sets a file flag
FileFlagLines == 5

\* _format_new_block's max_line_length
MaxLineLength == 120

\* (a mutant of FirstLines: no cut-off, the markers of every line set file
\* flags)
FirstLines_NoCutOff(lines, n) == lines

\* lines[:n]
FirstLines(lines, n) == SubSeq(lines, 1, IF Len(lines) < n THEN Len(lines) ELSE n)

\* (a mutant of LineFlagsOf: the three tests chained with elif, so that a
\* line gets the flag of the first marker found on it only)
LineFlagsOf_FirstOnly(line) ==
    IF Contains(line, AWL_DIRECTIVES.ignore_file) THEN {"ignore"}
    ELSE IF Contains(line, AWL_DIRECTIVES.include_private) THEN {"include_private"}
    ELSE IF Contains(line, AWL_DIRECTIVES.exclude_public) THEN {"exclude_public"}
    ELSE {}

\* the flags the second loop of parse_control_flags finds on one line
LineFlagsOf(line) ==
    {f \in {"ignore"} : Contains(line, AWL_DIRECTIVES.ignore_file)}
    \cup {f \in {"include_private"} : Contains(line, AWL_DIRECTIVES.include_private)}
    \cup {f \in {"exclude_public"} : Contains(line, AWL_DIRECTIVES.exclude_public)}

parse_control_flags(code) ==
    LET lines == SplitLines(code)
        head == FirstLines(lines, FileFlagLines)
        flagged == {n \in DOMAIN lines : LineFlagsOf(lines[n]) # {}}
    IN  [file |->
            [ignore_file |->
                \E i \in DOMAIN head : Contains(head[i], AWL_DIRECTIVES.ignore_file),
             include_private |->
                \E i \in DOMAIN head : Contains(head[i], AWL_DIRECTIVES.include_private),
             exclude_public |->
                \E i \in DOMAIN head : Contains(head[i], AWL_DIRECTIVES.exclude_public)],
         lines |-> [n \in flagged |-> LineFlagsOf(lines[n])]]

\* (a mutant of LineFlagsGet: the flags of all lines, so that a line's
\* directive acts on every statement of the file)
LineFlagsGet_AnyLine(flags, lineno) ==
    UNION {flags.lines[n] : n \in DOMAIN flags.lines}

\* self.line_flags.get(lineno, set())
LineFlagsGet(flags, lineno) ==
    IF lineno \in DOMAIN flags.lines THEN flags.lines[lineno] ELSE {}

\* (a mutant of should_include: exclude_public drops private names too)
should_include_AnyName(flags, name, lineno) ==
    LET is_private == StartsWithUnderscore(name)
        line == LineFlagsGet(flags, lineno)
    IN  IF "ignore" \in line THEN FALSE
        ELSE IF is_private
                /\ ~(flags.file.include_private \/ "include_private" \in line)
        THEN FALSE
        ELSE ~(flags.file.exclude_public \/ "exclude_public" \in line)

\* ImportFilter.should_include
should_include(flags, name, lineno) ==
    LET is_private == StartsWithUnderscore(name)
        line == LineFlagsGet(flags, lineno)
    IN  IF "ignore" \in line THEN FALSE
        ELSE IF is_private
                /\ ~(flags.file.include_private \/ "include_private" \in line)
        THEN FALSE
        ELSE ~(~is_private /\ (flags.file.exclude_public \/ "exclude_public" \in line))

\* alias.asname or alias.name.split(".")[0]
EffectiveName(alias) == IF alias.asname # "" THEN alias.asname ELSE alias.name[1]

\* sorted(names): the names in code-point order
Sorted(names) == SelectSeq(CodePointOrder, LAMBDA n : n \in names)

RECURSIVE CollectNames(_, _, _)
\* the loop of find_public_names over tree.body, from statement i on
CollectNames(body, flags, i) ==
    IF i > Len(body) THEN {}
    ELSE LET node == body[i]
             kept == IF node.type \in {"Import", "ImportFrom"}
                     THEN {EffectiveName(node.names[k]) : k \in
                            {j \in DOMAIN node.names :
                                should_include(flags, EffectiveName(node.names[j]),
                                               node.lineno)}}
                     ELSE {}
         IN  kept \cup CollectNames(body, flags, i + 1)

RECURSIVE CollectList(_, _, _)
CollectList(body, flags, i) ==
    IF i > Len(body) THEN <<>>
    ELSE LET node == body[i]
             names == IF node.type \in {"Import", "ImportFrom"}
                      THEN [k \in DOMAIN node.names |-> EffectiveName(node.names[k])]
                      ELSE <<>>
         IN  SelectSeq(names, LAMBDA n : should_include(flags, n, node.lineno))
             \o CollectList(body, flags, i + 1)

\* (a mutant of find_public_names: the names kept in a list, in the order
\* they are met, and returned as they are)
find_public_names_Unsorted(body, flags) == CollectList(body, flags, 1)

find_public_names(body, flags) == Sorted(CollectNames(body, flags, 1))

RECURSIVE FindAllFrom(_, _)
\* _find_all_node: a node once for each of its targets that is __all__
FindAllFrom(body, i) ==
    IF i > Len(body) THEN <<>>
    ELSE LET node == body[i]
             hits == IF node.type = "Assign"
                     THEN SelectSeq(node.targets, LAMBDA t : t = DUNDER_ALL)
                     ELSE <<>>
         IN  [k \in DOMAIN hits |-> node] \o FindAllFrom(body, i + 1)

_find_all_node(body) == FindAllFrom(body, 1)

RECURSIVE JoinQuoted(_)
\* ', '.join(f'"{name}"' for name in new_all)
JoinQuoted(names) ==
    IF names = <<>> THEN <<>>
    ELSE IF Len(names) = 1 THEN <<Quote(names[1])>>
    ELSE <<Quote(names[1]), COMMA, SP>> \o JoinQuoted(Tail(names))

RECURSIVE NameLines(_, _)
\* "".join(f'{indent}    "{name}",\n' for name in new_all)
NameLines(indent, names) ==
    IF names = <<>> THEN <<>>
    ELSE indent \o <<SP, SP, SP, SP, Quote(names[1]), COMMA, NL>>
         \o NameLines(indent, Tail(names))

\* (a mutant of _format_new_block: the closing bracket of the multi-line
\* block is written without the indent)
_format_new_block_ClosingAtMargin(indent, names) ==
    LET inline == indent \o <<DUNDER_ALL, SP, EQ, SP, LBR>> \o JoinQuoted(names)
                  \o <<RBR, NL>>
    IN  IF StrLen(inline) <= MaxLineLength
        THEN inline
        ELSE indent \o <<DUNDER_ALL, SP, EQ, SP, LBR, NL>>
             \o NameLines(indent, names)
             \o <<RBR, NL>>

_format_new_block(indent, names) ==
    LET inline == indent \o <<DUNDER_ALL, SP, EQ, SP, LBR>> \o JoinQuoted(names)
                  \o <<RBR, NL>>
    IN  IF StrLen(inline) <= MaxLineLength
        THEN inline
        ELSE indent \o <<DUNDER_ALL, SP, EQ, SP, LBR, NL>>
             \o NameLines(indent, names)
             \o indent \o <<RBR, NL>>

\* what a call gives: raised (ast.parse's SyntaxError left the function),
\* the returned pair, and the text written, if any
Outcome(raised, changed, reason, written, text) ==
    [raised |-> raised, changed |-> changed, reason |-> reason,
     written |-> written, text |-> text]

\* (a mutant of ReplaceSlice: the slice is one line too long)
ReplaceSlice_OneMore(lines, start, end, new_block) ==
    SubSeq(lines, 1, start) \o <<new_block>> \o SubSeq(lines, end + 2, Len(lines))

\* new_lines[start:end] = [new_block]
ReplaceSlice(lines, start, end, new_block) ==
    SubSeq(lines, 1, start) \o <<new_block>> \o SubSeq(lines, end + 1, Len(lines))

\* (a mutant of IsConflict: two declarations pass)
IsConflict_OffByOne(assigns) == Len(assigns) > 2

\* len(assigns) > 1
IsConflict(assigns) == Len(assigns) > 1

\* (a mutant of Writes: the write is not guarded)
Writes_Always(dry_run) == TRUE

\* if not dry_run: path.write_text(...)
Writes(dry_run) == ~dry_run

\* (a mutant of update_dunder_all: on a dry run the old block is not
\* compared with the new one, and a change is reported)
update_dunder_all_DryRunSkipsCompare(code, names, dry_run) ==
    LET tree == ast_parse(code)
        lines == SplitLinesKeepEnds(code)
        sorted_all == Sorted(names)
        assigns == _find_all_node(tree.body)
    IN  IF ~tree.ok THEN Outcome(TRUE, FALSE, "None", FALSE, code)
        ELSE IF IsConflict(assigns)
        THEN Outcome(FALSE, FALSE, "Multiple __all__ assignments", FALSE, code)
        ELSE IF Len(assigns) > 0
        THEN LET node == assigns[1]
                 start == node.lineno - 1
                 end == node.end_lineno
                 indent == LeadingSpaces(lines[start + 1])
                 new_block == _format_new_block(indent, sorted_all)
                 old_block == Join(SubSeq(lines, start + 1, end))
             IN  IF ~dry_run /\ old_block = new_block
                 THEN Outcome(FALSE, FALSE, "None", FALSE, code)
                 ELSE Outcome(FALSE, TRUE, "None", Writes(dry_run),
                              Join(ReplaceSlice(lines, start, end, new_block)))
        ELSE Outcome(FALSE, TRUE, "None", Writes(dry_run),
                     Join(Append(lines, _format_new_block(<<>>, sorted_all))))

update_dunder_all(code, names, dry_run) ==
    LET tree == ast_parse(code)
        lines == SplitLinesKeepEnds(code)
        sorted_all == Sorted(names)
        assigns == _find_all_node(tree.body)
    IN  IF ~tree.ok THEN Outcome(TRUE, FALSE, "None", FALSE, code)
        ELSE IF IsConflict(assigns)
        THEN Outcome(FALSE, FALSE, "Multiple __all__ assignments", FALSE, code)
        ELSE IF Len(assigns) > 0
        THEN LET node == assigns[1]
                 start == node.lineno - 1
                 end == node.end_lineno
                 indent == LeadingSpaces(lines[start + 1])
                 new_block == _format_new_block(indent, sorted_all)
                 old_block == Join(SubSeq(lines, start + 1, end))
             IN  IF old_block = new_block
                 THEN Outcome(FALSE, FALSE, "None", FALSE, code)
                 ELSE Outcome(FALSE, TRUE, "None", Writes(dry_run),
                              Join(ReplaceSlice(lines, start, end, new_block)))
        ELSE Outcome(FALSE, TRUE, "None", Writes(dry_run),
                     Join(Append(lines, _format_new_block(<<>>, sorted_all))))

\* what extract_current_all returns: None, or the list of the elements'
\* values (a constant's value is written as the token that denotes it)
NoList == [none |-> TRUE, list |-> <<>>]

extract_current_all(body) ==
    LET assigns == _find_all_node(body)
    IN  IF Len(assigns) = 0 THEN NoList
        ELSE LET all_node == assigns[1].value
             IN  IF all_node.kind \in {"List", "Tuple"}
                 THEN [none |-> FALSE,
                       list |-> LET consts == SelectSeq(all_node.elts,
                                                        LAMBDA elt : elt.const)
                                IN  [k \in DOMAIN consts |-> consts[k].tok]]
                 ELSE NoList

\* (a mutant of HasWildcard: the wrong node class)
HasWildcard_Import(body) ==
    \E i \in DOMAIN body :
        /\ body[i].type = "Import"
        /\ \E k \in DOMAIN body[i].names : body[i].names[k].name = <<"*">>

\* any(isinstance(node, ast.ImportFrom) and any(alias.name == "*" ...))
HasWildcard(body) ==
    \E i \in DOMAIN body :
        /\ body[i].type = "ImportFrom"
        /\ \E k \in DOMAIN body[i].names : body[i].names[k].name = <<"*">>

\* process_file's result record, and the text written, if any
Result(raised, status, reason, names, written, text) ==
    [raised |-> raised, status |-> status, reason |-> reason,
     new_all |-> names, written |-> written, text |-> text]

\* (verbose keeps its default, False: old_all is None in every record)
process_file(code, dry_run) ==
    LET tree == ast_parse(code)
        flags == parse_control_flags(code)
        public_names == find_public_names(tree.body, flags)
        upd == update_dunder_all(code, {public_names[i] : i \in DOMAIN public_names},
                                 dry_run)
    IN  IF ~tree.ok THEN Result(TRUE, "raise", "None", <<>>, FALSE, code)
        ELSE IF HasWildcard(tree.body)
        THEN Result(FALSE, "skip", "wildcard", <<>>, FALSE, code)
        ELSE IF flags.file.ignore_file
        THEN Result(FALSE, "skip", "ignore", <<>>, FALSE, code)
        ELSE Result(FALSE, IF upd.changed THEN "changed" ELSE "unchanged",
                    upd.reason, public_names, upd.written, upd.text)

\* a result record of main: file is the path, as the file's index in the
\* file system (0: no file)
Record(status, reason, path, names) ==
    [status |-> status, reason |-> reason, file |-> path, new_all |-> names]

\* the element of a one-element set (binds a value that is used several
\* times, so that it is computed once)
The(S) == CHOOSE x \in S : TRUE

RECURSIVE RunBatch_StopsAtSkip(_, _, _)
RunBatch_StopsAtSkip(fs, todo, dry_run) ==
    IF todo = <<>> THEN [raised |-> FALSE, results |-> <<>>, files |-> fs]
    ELSE The({
        IF r.raised THEN [raised |-> TRUE, results |-> <<>>, files |-> fs]
        ELSE IF r.status = "skip" \/ r.reason # "None"
        THEN [raised |-> FALSE,
              results |-> <<Record(r.status, r.reason, Head(todo), r.new_all)>>,
              files |-> fs]
        ELSE The({
            [raised |-> rest.raised,
             results |-> IF rest.raised THEN <<>>
                         ELSE <<Record(r.status, r.reason, Head(todo), r.new_all)>>
                              \o rest.results,
             files |-> rest.files] :
            rest \in {RunBatch_StopsAtSkip(
                        IF r.written THEN [fs EXCEPT ![Head(todo)] = r.text] ELSE fs,
                        Tail(todo), dry_run)}}) :
        r \in {process_file(fs[Head(todo)], dry_run)}})

RECURSIVE RunBatch(_, _, _)
\* [process_file(file_path, ...) for file_path in files_to_process]: the
\* files one after the other (r: what process_file gives for the first,
\* rest: what the loop gives for the others); an exception ends the loop,
\* and no list is returned
RunBatch(fs, todo, dry_run) ==
    IF todo = <<>> THEN [raised |-> FALSE, results |-> <<>>, files |-> fs]
    ELSE The({
        IF r.raised THEN [raised |-> TRUE, results |-> <<>>, files |-> fs]
        ELSE The({
            [raised |-> rest.raised,
             results |-> IF rest.raised THEN <<>>
                         ELSE <<Record(r.status, r.reason, Head(todo), r.new_all)>>
                              \o rest.results,
             files |-> rest.files] :
            rest \in {RunBatch(
                        IF r.written THEN [fs EXCEPT ![Head(todo)] = r.text] ELSE fs,
                        Tail(todo), dry_run)}}) :
        r \in {process_file(fs[Head(todo)], dry_run)}})

\* files_to_process: the file of the path given, or (path = 0 for None) the
\* __init__.py files found under the source directories of pyproject.toml,
\* here all the files of the file system, each found once
FilesToProcess(fs, path) ==
    IF path = 0 THEN [i \in DOMAIN fs |-> i] ELSE <<path>>

\* (a mutant of main: the loop ends at the first file that is skipped or in
\* conflict)
main_StopsAtSkip(fs, path, pyproject, dry_run) ==
    IF path = 0 /\ ~pyproject
    THEN [raised |-> FALSE,
          results |-> <<Record("error", "no-pyproject", 0, <<>>)>>,
          files |-> fs]
    ELSE RunBatch_StopsAtSkip(fs, FilesToProcess(fs, path), dry_run)

\* pyproject: whether pyproject.toml exists
main(fs, path, pyproject, dry_run) ==
    IF path = 0 /\ ~pyproject
    THEN [raised |-> FALSE,
          results |-> <<Record("error", "no-pyproject", 0, <<>>)>>,
          files |-> fs]
    ELSE RunBatch(fs, FilesToProcess(fs, path), dry_run)

----------------------------------------------------------------------------
(* The files the functions are called on *)

Decl(names) == <<DUNDER_ALL, SP, EQ, SP, LBR>> \o JoinQuoted(names) \o <<RBR, NL>>

\* the lines and statements the initial texts given to update_dunder_all
\* are made of
PatchUnits ==
    { <<"# note", NL>>,
      \* __all__ = ["a"]
      Decl(<<"a">>),
      \* a declaration over three lines
      <<DUNDER_ALL, SP, EQ, SP, LBR, NL,
        SP, SP, SP, SP, Quote(LongName), COMMA, NL,
        RBR, NL>>,
      \* x = 1; __all__ = ["b"]  # note
      <<"x", SP, EQ, SP, "1", SEMI, SP>> \o StripEnd(Decl(<<"b">>))
        \o <<SP, SP, "# note", NL>>,
      \* a declaration that starts on the last line of another statement
      <<"x", SP, EQ, SP, LBR, NL,
        SP, SP, "1", RBR, SEMI, SP>> \o Decl(<<>>) }

\* the lines and statements the initial texts given to process_file are
\* made of
ProcessUnits ==
    { <<"from m import a, _p", NL>>,
      <<"import b", SP, SP, AWL_DIRECTIVES.exclude_public, NL>>,
      <<"import b", SP, SP, AWL_DIRECTIVES.ignore_file, NL>>,
      <<"from m import *", NL>>,
      \* a declaration over three lines
      <<DUNDER_ALL, SP, EQ, SP, LBR, NL,
        SP, SP, SP, SP, Quote("a"), COMMA, NL,
        RBR, NL>> }

\* the import statements the texts given to find_public_names are made of
FilterUnits ==
    { <<"import a", NL>>,
      <<"from m import a, _p", NL>>,
      <<"import b.a as _p", SP, SP, AWL_DIRECTIVES.include_private, NL>>,
      <<"import b", SP, SP, AWL_DIRECTIVES.exclude_public, NL>>,
      <<"import a", SP, SP, AWL_DIRECTIVES.ignore_file, NL>> }

\* the sequences of at most n elements of S
SeqsUpTo(S, n) == UNION {[1..k -> S] : k \in 0..n}

RECURSIVE BlankLines(_)
BlankLines(k) == IF k = 0 THEN <<>> ELSE <<NL>> \o BlankLines(k - 1)

\* the name sets update_dunder_all is given
PatchNames == {"a", "b", LongName}

\* one call, as the caller sees it: the function and its arguments, the
\* file before and after, and what came back (order: the order in which
\* find_public_names visits the statements)
Call(op, dry_run, order, before, after, out) ==
    [op |-> op, dry_run |-> dry_run, order |-> order,
     before |-> before, after |-> after,
     raised |-> out.raised, changed |-> out.changed, status |-> out.status,
     reason |-> out.reason, names |-> out.names, written |-> out.written]

\* path.write_text, when the call wrote
Written(out) == IF out.written THEN out.text ELSE file

----------------------------------------------------------------------------
(* update_dunder_all on a file, with a fixed name set *)

Init ==
    /\ \E us \in SeqsUpTo(PatchUnits, MaxUnits), nl \in BOOLEAN :
            file = IF nl THEN Join(us) ELSE StripEnd(Join(us))
    /\ new_all \in SUBSET PatchNames
    /\ files = <<>>
    /\ calls = <<>>

UpdateDunderAll(dry_run) ==
    /\ Len(calls) < MaxCalls
    /\ \E r \in {update_dunder_all(file, new_all, dry_run)} :
        \E out \in {[raised |-> r.raised, changed |-> r.changed,
                     status |-> "None", reason |-> r.reason,
                     names |-> Sorted(new_all), written |-> r.written,
                     text |-> r.text]} :
            /\ file' = Written(out)
            /\ calls' = Append(calls, Call("update", dry_run, <<>>, file,
                                           Written(out), out))
    /\ UNCHANGED <<new_all, files>>

Next == \E dry_run \in BOOLEAN : UpdateDunderAll(dry_run)

Spec == Init /\ [][Next]_vars

----------------------------------------------------------------------------
(* process_file on a file *)

InitProcess ==
    /\ \E us \in SeqsUpTo(ProcessUnits, MaxUnits), k \in 0..MaxPad, nl \in BOOLEAN :
            file = BlankLines(k) \o (IF nl THEN Join(us) ELSE StripEnd(Join(us)))
    /\ new_all = {}
    /\ files = <<>>
    /\ calls = <<>>

ProcessFile(dry_run) ==
    /\ Len(calls) < MaxCalls
    /\ \E r \in {process_file(file, dry_run)} :
        \E out \in {[raised |-> r.raised, changed |-> r.status = "changed",
                     status |-> r.status, reason |-> r.reason,
                     names |-> r.new_all, written |-> r.written,
                     text |-> r.text]} :
            /\ file' = Written(out)
            /\ calls' = Append(calls, Call("process", dry_run, <<>>, file,
                                           Written(out), out))
    /\ UNCHANGED <<new_all, files>>

NextProcess == \E dry_run \in BOOLEAN : ProcessFile(dry_run)

SpecProcess == InitProcess /\ [][NextProcess]_vars

----------------------------------------------------------------------------
(* both functions on a file *)

\* the files of the two sections above that have one unit less
InitBoth ==
    /\ \/ /\ \E us \in SeqsUpTo(PatchUnits, MaxUnits - 1), nl \in BOOLEAN :
                    file = IF nl THEN Join(us) ELSE StripEnd(Join(us))
          /\ new_all \in SUBSET PatchNames
       \/ /\ \E us \in SeqsUpTo(ProcessUnits, MaxUnits - 1), k \in 0..MaxPad,
                    nl \in BOOLEAN :
                    file = BlankLines(k)
                           \o (IF nl THEN Join(us) ELSE StripEnd(Join(us)))
          /\ new_all = {}
    /\ files = <<>>
    /\ calls = <<>>

NextBoth == \E dry_run \in BOOLEAN : UpdateDunderAll(dry_run) \/ ProcessFile(dry_run)

SpecBoth == InitBoth /\ [][NextBoth]_vars

----------------------------------------------------------------------------
(* find_public_names on the statements and flags of a file, the statements *)
(* visited in any order                                                    *)

\* the permutations of 1..n
Orders(n) == {f \in [1..n -> 1..n] : \A i, j \in 1..n : i # j => f[i] # f[j]}

InitFilter ==
    /\ \E us \in SeqsUpTo(FilterUnits, MaxUnits), k \in 0..MaxPad :
            file = BlankLines(k) \o Join(us)
    /\ new_all = {}
    /\ files = <<>>
    /\ calls = <<>>

\* (the first call visits the statements as find_public_names does, in the
\* order of the text; the second in any order)
FindPublicNames(order) ==
    /\ Len(calls) < 2
    /\ \E tree \in {ast_parse(file)} :
        /\ tree.ok
        /\ order \in Orders(Len(tree.body))
        /\ calls = <<>> => order = [i \in DOMAIN tree.body |-> i]
        /\ \E r \in {find_public_names([i \in DOMAIN order |-> tree.body[order[i]]],
                                       parse_control_flags(file))} :
            calls' = Append(calls,
                        Call("find", FALSE, order, file, file,
                             [raised |-> FALSE, changed |-> FALSE,
                              status |-> "None", reason |-> "None",
                              names |-> r, written |-> FALSE]))
    /\ UNCHANGED <<file, files, new_all>>

NextFilter == \E order \in UNION {Orders(n) : n \in 0..MaxUnits} : FindPublicNames(order)

SpecFilter == InitFilter /\ [][NextFilter]_vars

----------------------------------------------------------------------------
(* parse_control_flags on a text *)

\* the lines the texts given to parse_control_flags are made of
FlagUnits ==
    { <<"import a", NL>>,
      <<AWL_DIRECTIVES.ignore_file, NL>>,
      <<"import a", SP, SP, AWL_DIRECTIVES.include_private, NL>>,
      \* a comment with two markers in it
      <<"import b", SP, SP, AWL_DIRECTIVES.exclude_public, SP,
        AWL_DIRECTIVES.include_private, NL>> }

\* a call of parse_control_flags, and the dict it returned
FlagsCall(code, flags) == [op |-> "flags", before |-> code, flags |-> flags]

InitFlags ==
    /\ \E us \in SeqsUpTo(FlagUnits, MaxUnits), k \in 0..MaxPad, nl \in BOOLEAN :
            file = BlankLines(k) \o (IF nl THEN Join(us) ELSE StripEnd(Join(us)))
    /\ new_all = {}
    /\ files = <<>>
    /\ calls = <<>>

ParseControlFlags ==
    /\ Len(calls) < 1
    /\ calls' = Append(calls, FlagsCall(file, parse_control_flags(file)))
    /\ UNCHANGED <<file, files, new_all>>

NextFlags == ParseControlFlags

SpecFlags == InitFlags /\ [][NextFlags]_vars

----------------------------------------------------------------------------
(* _format_new_block on an indent and a sorted name list *)

RECURSIVE Blanks(_)
Blanks(k) == IF k = 0 THEN <<>> ELSE <<SP>> \o Blanks(k - 1)

\* a call of _format_new_block, and the block it returned
FormatCall(indent, names, block) ==
    [op |-> "format", indent |-> indent, names |-> names, block |-> block]

InitFormat ==
    /\ file = <<>>
    /\ new_all \in SUBSET Names
    /\ files = <<>>
    /\ calls = <<>>

FormatNewBlock(k) ==
    /\ Len(calls) < MaxCalls
    /\ calls' = Append(calls,
                    FormatCall(Blanks(k), Sorted(new_all),
                               _format_new_block(Blanks(k), Sorted(new_all))))
    /\ UNCHANGED <<file, files, new_all>>

NextFormat == \E k \in 0..MaxIndent : FormatNewBlock(k)

SpecFormat == InitFormat /\ [][NextFormat]_vars

----------------------------------------------------------------------------
(* extract_current_all on the tree of a text *)

\* the statements the texts given to extract_current_all are made of
ExtractUnits ==
    { <<"import a", NL>>,
      Decl(<<"a", "b">>),
      \* __all__ = get_all()
      <<DUNDER_ALL, SP, EQ, SP, "get_all()", NL>>,
      \* __all__ = ["a", x]
      <<DUNDER_ALL, SP, EQ, SP, LBR, Quote("a"), COMMA, SP, "x", RBR, NL>>,
      \* __all__ = ["a", 1]
      <<DUNDER_ALL, SP, EQ, SP, LBR, Quote("a"), COMMA, SP, "1", RBR, NL>>,
      \* __all__ = x
      <<DUNDER_ALL, SP, EQ, SP, "x", NL>> }

\* a call of extract_current_all, and what it returned
ExtractCall(code, out) ==
    [op |-> "extract", before |-> code, none |-> out.none, list |-> out.list]

InitExtract ==
    /\ \E us \in SeqsUpTo(ExtractUnits, MaxUnits), nl \in BOOLEAN :
            file = IF nl THEN Join(us) ELSE StripEnd(Join(us))
    /\ new_all = {}
    /\ files = <<>>
    /\ calls = <<>>

ExtractCurrentAll ==
    /\ Len(calls) < 1
    /\ \E tree \in {ast_parse(file)} :
        /\ tree.ok
        /\ calls' = Append(calls, ExtractCall(file, extract_current_all(tree.body)))
    /\ UNCHANGED <<file, files, new_all>>

NextExtract == ExtractCurrentAll

SpecExtract == InitExtract /\ [][NextExtract]_vars

----------------------------------------------------------------------------
(* main on a file system *)

\* the contents of the files main is run on
MainFiles ==
    { \* out of date: no declaration yet
      <<"from m import a, _p", NL>>,
      \* up to date
      <<"from m import a, _p", NL>> \o Decl(<<"a">>),
      \* two declarations
      Decl(<<"a">>) \o Decl(<<"b">>),
      <<"from m import *", NL>>,
      <<AWL_DIRECTIVES.ignore_file, NL, "import a", NL>>,
      \* unexpected indent: ast.parse raises
      <<SP, "import a", NL>> }

\* a call of main, the file system before and after it, and what came back
MainCall(path, pyproject, dry_run, before, out) ==
    [op |-> "main", path |-> path, pyproject |-> pyproject, dry_run |-> dry_run,
     todo |-> FilesToProcess(before, path),
     before |-> before, after |-> out.files,
     raised |-> out.raised, results |-> out.results]

InitMain ==
    /\ file = <<>>
    /\ new_all = {}
    /\ files \in SeqsUpTo(MainFiles, MaxFiles)
    /\ calls = <<>>

Main(path, pyproject, dry_run) ==
    /\ Len(calls) < 1
    /\ path \in {0} \cup DOMAIN files
    /\ \E out \in {main(files, path, pyproject, dry_run)} :
        /\ files' = out.files
        /\ calls' = Append(calls, MainCall(path, pyproject, dry_run, files, out))
    /\ UNCHANGED <<file, new_all>>

NextMain ==
    \E path \in 0..MaxFiles, pyproject \in BOOLEAN, dry_run \in BOOLEAN :
        Main(path, pyproject, dry_run)

SpecMain == InitMain /\ [][NextMain]_vars

----------------------------------------------------------------------------
(* update_dunder_all on files with chained assignments *)

\* the statements these files are made of
ChainUnits ==
    { <<"x", SP, EQ, SP, "1", NL>>,
      Decl(<<"a">>),
      \* x = __all__ = ["a"]
      <<"x", SP, EQ, SP>> \o Decl(<<"a">>),
      \* __all__ = __all__ = ["a"]
      <<DUNDER_ALL, SP, EQ, SP>> \o Decl(<<"a">>) }

InitChained ==
    /\ \E us \in SeqsUpTo(ChainUnits, MaxUnits), nl \in BOOLEAN :
            file = IF nl THEN Join(us) ELSE StripEnd(Join(us))
    /\ new_all \in SUBSET PatchNames
    /\ files = <<>>
    /\ calls = <<>>

SpecChained == InitChained /\ [][Next]_vars

----------------------------------------------------------------------------
(* Properties *)

\* the last call
Last == calls[Len(calls)]

\* the top-level assignment statements of a text that assign to __all__
DeclNodes(code) ==
    LET body == ast_parse(code).body
    IN  {body[i] : i \in {j \in DOMAIN body :
            /\ body[j].type = "Assign"
            /\ \E k \in DOMAIN body[j].targets : body[j].targets[k] = DUNDER_ALL}}

IsPrefix(s, t) == Len(s) <= Len(t) /\ SubSeq(t, 1, Len(s)) = s

IsSuffix(s, t) == Len(s) <= Len(t) /\ SubSeq(t, Len(t) - Len(s) + 1, Len(t)) = s

\* C1. Patch idempotence: after update_dunder_all has run on a text with a
\* name set (not dry-run), the next call with the same name set on the file
\* it left behind returns changed = false.
C1_PatchIdempotence ==
    \A i \in 1..(Len(calls) - 1) :
        (calls[i].op = "update" /\ calls[i + 1].op = "update" /\ ~calls[i].dry_run)
            => (~calls[i + 1].raised /\ ~calls[i + 1].changed)

\* C2. Whole-file re-run idempotence: after process_file (not dry-run) has
\* returned changed or unchanged, the next process_file on the resulting
\* content does not report changed and leaves the content byte-identical.
C2_RerunIdempotence ==
    \A i \in 1..(Len(calls) - 1) :
        (/\ calls[i].op = "process" /\ calls[i + 1].op = "process"
         /\ ~calls[i].dry_run
         /\ calls[i].status \in {"changed", "unchanged"})
            => (calls[i + 1].status # "changed" /\ calls[i + 1].after = calls[i].after)

\* The lines of a written text outside the declaration's span, for one call
LinesPreserved(c) ==
    LET old == SplitLinesKeepEnds(c.before)
        new == SplitLinesKeepEnds(c.after)
        decls == DeclNodes(c.before)
    IN  IF decls = {}
        THEN IsPrefix(c.before, c.after)
        ELSE \A node \in decls :
                /\ \A n \in 1..(node.lineno - 1) :
                        n \in DOMAIN new /\ new[n] = old[n]
                /\ \A n \in (node.end_lineno + 1)..Len(old) :
                        /\ Len(new) - (Len(old) - n) \in DOMAIN new
                        /\ new[Len(new) - (Len(old) - n)] = old[n]

\* C3. Round-trip preservation: whenever update_dunder_all writes, the lines
\* before the declaration's span keep their index and content, the lines
\* after it keep their content and order, and with no declaration the
\* original text is a prefix of the written text.
C3_RoundTrip ==
    (calls # <<>> /\ Last.op = "update" /\ Last.written) => LinesPreserved(Last)

\* a call wrote a declaration that has lines before it and after it, and
\* now takes another number of lines
C3_Witness ==
    /\ calls # <<>> /\ Last.op = "update" /\ Last.written
    /\ \E node \in DeclNodes(Last.before) :
        /\ node.lineno > 1
        /\ node.end_lineno < Len(SplitLinesKeepEnds(Last.before))
        /\ Len(SplitLinesKeepEnds(Last.after)) # Len(SplitLinesKeepEnds(Last.before))

\* C4. Only the declaration statement is rewritten: whenever
\* update_dunder_all writes, the text before the statement's first token and
\* the text after its last token (other statements on its lines, a trailing
\* comment) are still there, unchanged.
C4_OnlyTheStatement ==
    (calls # <<>> /\ Last.op = "update" /\ Last.written) =>
        \A node \in DeclNodes(Last.before) :
            /\ IsPrefix(SubSeq(Last.before, 1, node.first - 1), Last.after)
            /\ IsSuffix(SubSeq(Last.before, node.last + 1, Len(Last.before)),
                        Last.after)

\* C5. Conflict safety: on a text with two or more top-level assignments to
\* __all__, update_dunder_all returns (false, "Multiple __all__
\* assignments") and writes nothing, dry-run or not, whatever the names.
C5_ConflictSafety ==
    (calls # <<>> /\ Last.op = "update" /\ Cardinality(DeclNodes(Last.before)) >= 2)
        => /\ ~Last.raised
           /\ ~Last.changed
           /\ Last.reason = "Multiple __all__ assignments"
           /\ ~Last.written
           /\ Last.after = Last.before

\* a conflict was reported on a call that was not a dry run, the names
\* differing from those declared
C5_Witness ==
    /\ calls # <<>> /\ Last.op = "update" /\ ~Last.dry_run
    /\ Cardinality(DeclNodes(Last.before)) >= 2
    /\ Last.names = <<"b">>
    /\ Last.reason = "Multiple __all__ assignments"

\* C6. Dry-run non-mutation: a call of update_dunder_all or process_file
\* with dry_run = true leaves the file content as it was, also when it
\* reports a change.
C6_DryRunNoWrite ==
    (calls # <<>> /\ Last.dry_run) => (Last.after = Last.before /\ ~Last.written)

\* both functions have reported a change on a dry run
C6_Witness ==
    /\ \E i \in DOMAIN calls :
            calls[i].op = "update" /\ calls[i].dry_run /\ calls[i].changed
    /\ \E i \in DOMAIN calls :
            calls[i].op = "process" /\ calls[i].dry_run /\ calls[i].status = "changed"

\* the place of a name in the code-point order
Rank(name) == CHOOSE i \in DOMAIN CodePointOrder : CodePointOrder[i] = name

\* the rule of the name filter, for a name bound by a statement on a line
Rule(flags, name, lineno) ==
    LET line == IF lineno \in DOMAIN flags.lines THEN flags.lines[lineno] ELSE {}
    IN  /\ "ignore" \notin line
        /\ IF StartsWithUnderscore(name)
           THEN flags.file.include_private \/ "include_private" \in line
           ELSE ~flags.file.exclude_public /\ "exclude_public" \notin line

\* the effective names of the import statements of a text that pass the rule
RuleNames(code) ==
    LET body == ast_parse(code).body
        flags == parse_control_flags(code)
        bound == UNION {{<<i, k>> : k \in DOMAIN body[i].names} :
                            i \in {j \in DOMAIN body :
                                    body[j].type \in {"Import", "ImportFrom"}}}
        name(b) == LET alias == body[b[1]].names[b[2]]
                   IN  IF alias.asname = "" THEN Head(alias.name) ELSE alias.asname
    IN  {name(b) : b \in {x \in bound : Rule(flags, name(x), body[x[1]].lineno)}}

\* C7. find_public_names returns exactly the sorted, duplicate-free
\* sequence of the effective names of the top-level import statements that
\* pass the rule: not on a line flagged ignore; a private name iff
\* include_private is set for the file or the line; a public name iff
\* exclude_public is set neither for the file nor for the line.
C7_FilterRule ==
    (calls # <<>> /\ Last.op = "find") =>
        /\ {Last.names[k] : k \in DOMAIN Last.names} = RuleNames(Last.before)
        /\ \A k \in 1..(Len(Last.names) - 1) :
                Rank(Last.names[k]) < Rank(Last.names[k + 1])

\* a private name was kept by its line's flag alone and a public name was
\* dropped by its line's flag alone, in a text that also has an ignored
\* statement
C7_Witness ==
    /\ calls # <<>> /\ Last.op = "find"
    /\ LET flags == parse_control_flags(Last.before)
       IN  /\ ~flags.file.include_private /\ ~flags.file.exclude_public
           /\ Last.names = <<"_p">>
           /\ \E n \in DOMAIN flags.lines : "ignore" \in flags.lines[n]
           /\ \E n \in DOMAIN flags.lines : "exclude_public" \in flags.lines[n]

\* C8. Filter determinism: whatever the order in which the import statements
\* are visited, find_public_names gives the same sequence, in which a name
\* bound by several statements occurs once.
C8_OrderIndependence ==
    \A i, j \in DOMAIN calls :
        (calls[i].op = "find" /\ calls[j].op = "find") =>
            /\ calls[i].names = calls[j].names
            /\ \A k, l \in DOMAIN calls[i].names :
                    k # l => calls[i].names[k] # calls[i].names[l]

\* the statements were visited in two different orders, and a name that
\* several of them bind was kept
C8_Witness ==
    /\ Len(calls) = 2
    /\ calls[1].op = "find" /\ calls[2].op = "find"
    /\ calls[1].order # calls[2].order
    /\ LET body == ast_parse(file).body
       IN  \E a, b \in DOMAIN body :
            /\ a # b
            /\ \E n \in {calls[1].names[k] : k \in DOMAIN calls[1].names} :
                /\ \E k \in DOMAIN body[a].names : EffectiveName(body[a].names[k]) = n
                /\ \E k \in DOMAIN body[b].names : EffectiveName(body[b].names[k]) = n
                /\ body[a].names # body[b].names

\* a text has a statement `from m import *`
WildcardIn(code) == \E i \in DOMAIN code : code[i] = "from m import *"

\* the ignore marker is on one of the first five lines of a text
IgnoreInHead(code) ==
    LET lines == SplitLinesKeepEnds(code)
    IN  \E n \in 1..5 : n \in DOMAIN lines
                        /\ \E k \in DOMAIN lines[n] : lines[n][k] = "# awl:ignore"

\* C9. Wildcard skip: on a file with a top-level `from X import *`,
\* process_file returns skip with reason "wildcard" and writes nothing,
\* dry-run or not, also when a file-level ignore directive is present.
C9_WildcardSkip ==
    (calls # <<>> /\ Last.op = "process" /\ WildcardIn(Last.before)) =>
        /\ Last.status = "skip"
        /\ Last.reason = "wildcard"
        /\ ~Last.written
        /\ Last.after = Last.before

\* a file with a wildcard import, a file-level ignore directive and no
\* declaration was skipped, not on a dry run
C9_Witness ==
    /\ calls # <<>> /\ Last.op = "process" /\ ~Last.dry_run
    /\ WildcardIn(Last.before)
    /\ IgnoreInHead(Last.before)
    /\ DeclNodes(Last.before) = {}
    /\ Last.reason = "wildcard"

\* C10. Skip-ignore: on a file without a wildcard import, process_file
\* returns skip with reason "ignore", the content untouched, if and only if
\* `# awl:ignore` is on one of the first five lines.
C10_SkipIgnore ==
    (calls # <<>> /\ Last.op = "process" /\ ~Last.raised /\ ~WildcardIn(Last.before)) =>
        ((/\ Last.status = "skip"
          /\ Last.reason = "ignore"
          /\ ~Last.written
          /\ Last.after = Last.before)
         <=> IgnoreInHead(Last.before))

\* a file with the ignore marker on its sixth line only was processed and
\* written
C10_Witness ==
    /\ calls # <<>> /\ Last.op = "process"
    /\ LET lines == SplitLinesKeepEnds(Last.before)
       IN  /\ 6 \in DOMAIN lines
           /\ \E k \in DOMAIN lines[6] : lines[6][k] = "# awl:ignore"
    /\ ~IgnoreInHead(Last.before)
    /\ Last.status = "changed" /\ Last.written

\* the number of the line a position of a text is on
LineOf(code, p) == 1 + Cardinality({q \in 1..(p - 1) : code[q] = NL})

\* the numbers of the lines of a text on which a marker occurs
MarkerLines(code, marker) ==
    {LineOf(code, p) : p \in {q \in DOMAIN code : code[q] = marker}}

\* the line flag each marker stands for
FlagOfMarker ==
    [ignore_file |-> "ignore", include_private |-> "include_private",
     exclude_public |-> "exclude_public"]

\* C11. Directive scanner windows: parse_control_flags sets each file flag
\* iff its marker occurs on one of the first 5 lines, and lines[n] is
\* present iff a marker occurs on line n, whatever n, holding exactly the
\* flags whose markers occur on that line; so a marker on a line n <= 5 sets
\* both the line flag for n and the file flag.
C11_ScannerWindows ==
    (calls # <<>> /\ Last.op = "flags") =>
        LET flags == Last.flags
            code == Last.before
        IN  /\ \A d \in DOMAIN AWL_DIRECTIVES :
                flags.file[d] <=>
                    (\E n \in MarkerLines(code, AWL_DIRECTIVES[d]) : n <= 5)
            /\ DOMAIN flags.lines =
                    UNION {MarkerLines(code, AWL_DIRECTIVES[d]) :
                                d \in DOMAIN AWL_DIRECTIVES}
            /\ \A n \in DOMAIN flags.lines :
                    flags.lines[n] =
                        {FlagOfMarker[d] : d \in
                            {e \in DOMAIN AWL_DIRECTIVES :
                                n \in MarkerLines(code, AWL_DIRECTIVES[e])}}

\* a text was scanned that has one marker on a line among the first five,
\* setting both flags, two markers on one line after the fifth, setting line
\* flags only, and no third marker in the first five lines
C11_Witness ==
    /\ calls # <<>> /\ Last.op = "flags"
    /\ LET flags == Last.flags
       IN  /\ flags.file.ignore_file
           /\ ~flags.file.include_private /\ ~flags.file.exclude_public
           /\ \E n \in DOMAIN flags.lines : n <= 5 /\ flags.lines[n] = {"ignore"}
           /\ \E n \in DOMAIN flags.lines :
                n > 5 /\ flags.lines[n] = {"include_private", "exclude_public"}

\* the top-level import statements of a text that start on a line carrying
\* the ignore marker
IgnoredImports(code) ==
    LET body == ast_parse(code).body
    IN  {body[i] : i \in {j \in DOMAIN body :
            /\ body[j].type \in {"Import", "ImportFrom"}
            /\ body[j].lineno \in MarkerLines(code, AWL_DIRECTIVES.ignore_file)}}

\* the file was processed, and exactly the names of the statements that are
\* not ignored (and that the private/public rule keeps) are exported
ProcessedWithoutIgnored(c) ==
    /\ c.status \in {"changed", "unchanged"}
    /\ {c.names[k] : k \in DOMAIN c.names} = RuleNames(c.before)

\* C12 (as stated). For an import statement on any line that carries
\* `# awl:ignore`, only that statement's names are excluded: the file is
\* still processed and the names of the other import statements are still
\* exported by process_file.
C12_IgnoreOnAnyLine ==
    (/\ calls # <<>> /\ Last.op = "process" /\ ~Last.raised
     /\ ~WildcardIn(Last.before)
     /\ IgnoredImports(Last.before) # {})
        => ProcessedWithoutIgnored(Last)

\* C12 (amended). For an import statement on a line that carries
\* `# awl:ignore`, in a file without a wildcard import that has no
\* `# awl:ignore` on its first five lines, only that statement's names are
\* excluded: the file is still processed and the names of the other import
\* statements are still exported by process_file.  (On one of the first
\* five lines the marker is the file-level directive as well.)
C12_IgnoreAfterFifthLine ==
    (/\ calls # <<>> /\ Last.op = "process" /\ ~Last.raised
     /\ ~WildcardIn(Last.before)
     /\ ~IgnoreInHead(Last.before)
     /\ IgnoredImports(Last.before) # {})
        => ProcessedWithoutIgnored(Last)

\* a file with `import b  # awl:ignore` after its fifth line and another
\* import statement was processed and written: a is exported, b is not
C12_Witness ==
    /\ calls # <<>> /\ Last.op = "process" /\ ~Last.dry_run
    /\ ~IgnoreInHead(Last.before)
    /\ \E node \in IgnoredImports(Last.before) :
            /\ node.lineno > 5
            /\ \E k \in DOMAIN node.names : EffectiveName(node.names[k]) = "b"
    /\ Last.names = <<"a">>
    /\ Last.status = "changed" /\ Last.written

\* the declaration on one line, without the line terminator
SingleLine(indent, names) ==
    indent \o <<DUNDER_ALL, SP, EQ, SP, LBR>> \o JoinQuoted(names) \o <<RBR>>

\* C13. Formatting threshold: the declaration is rendered as the single
\* line indent + `__all__ = [` + the comma-joined quoted names + `]` if and
\* only if that line's length, not counting the line terminator, is at most
\* 120 characters (120 stays on one line, 121 is wrapped).
C13_Threshold ==
    (calls # <<>> /\ Last.op = "format") =>
        ((Last.block = SingleLine(Last.indent, Last.names) \o <<NL>>)
         <=> StrLen(SingleLine(Last.indent, Last.names)) <= 120)

\* the block has the multi-line shape: an opening line, one line per name
\* in the order given, at the indent plus four blanks, quoted and ending
\* with a comma, and a closing line at the indent
MultiLineShape(c) ==
    LET lines == SplitLinesKeepEnds(c.block)
        n == Len(c.names)
    IN  /\ Len(lines) = n + 2
        /\ lines[1] = c.indent \o <<DUNDER_ALL, SP, EQ, SP, LBR, NL>>
        /\ \A k \in 1..n :
              lines[k + 1] =
                c.indent \o <<SP, SP, SP, SP, Quote(c.names[k]), COMMA, NL>>
        /\ lines[n + 2] = c.indent \o <<RBR, NL>>
        /\ \A k \in 1..(n - 1) : Rank(c.names[k]) < Rank(c.names[k + 1])

\* C18. Multi-line block shape and stability: when the single-line
\* rendering exceeds the width limit (and whenever the block is wrapped),
\* the block has exactly len(names) + 2 lines: the opening line, one line
\* per name in sorted order at indent plus four blanks, quoted, with a
\* trailing comma, and the closing line indent + `]`; and two calls with
\* equal (indent, names) return equal bytes, wrapped or not.
C18_MultiLineShape ==
    /\ (calls # <<>> /\ Last.op = "format") =>
            ((\/ StrLen(SingleLine(Last.indent, Last.names)) > 120
              \/ Len(SplitLinesKeepEnds(Last.block)) > 1)
                => MultiLineShape(Last))
    /\ \A i, j \in DOMAIN calls :
            (/\ calls[i].op = "format" /\ calls[j].op = "format"
             /\ calls[i].indent = calls[j].indent
             /\ calls[i].names = calls[j].names)
                => calls[i].block = calls[j].block

\* a list of three names too long for one line was rendered with a
\* non-empty indent, twice
C18_Witness ==
    /\ Len(calls) = 2
    /\ calls[1].op = "format" /\ calls[2].op = "format"
    /\ calls[1].indent = calls[2].indent
    /\ calls[1].indent # <<>>
    /\ Len(calls[1].names) = 3
    /\ StrLen(SingleLine(calls[1].indent, calls[1].names)) > 120
    /\ Len(SplitLinesKeepEnds(calls[2].block)) = 5

\* the written text of a call is the original text followed by the
\* declaration of the names as a new last statement on lines of its own
AppendedAsStatement(c) ==
    LET old == SplitLinesKeepEnds(c.before)
        new == SplitLinesKeepEnds(c.after)
        tree == ast_parse(c.after)
        decls == DeclNodes(c.after)
    IN  /\ IsPrefix(c.before, c.after)
        /\ Len(new) > Len(old)
        /\ \A n \in DOMAIN old : new[n] = old[n]
        /\ tree.ok
        /\ Cardinality(decls) = 1
        /\ \A node \in decls :
            /\ node = tree.body[Len(tree.body)]
            /\ node.lineno = Len(old) + 1
            /\ node.end_lineno = Len(new)
            /\ c.after[node.first] = DUNDER_ALL
            /\ node.first = Len(c.before) + 1
            /\ node.targets = <<DUNDER_ALL>>
            /\ node.value.kind = "List"
            /\ [k \in DOMAIN node.value.elts |-> node.value.elts[k].tok]
                    = [k \in DOMAIN c.names |-> Quote(c.names[k])]

\* C14. Append on missing declaration: on a text without a top-level
\* __all__ assignment update_dunder_all returns changed = true, also for an
\* empty name set, and, when not dry-run, the written text is the original
\* lines followed by the zero-indent declaration as a new final statement
\* on its own line(s): re-parsing it finds exactly one __all__ assignment
\* listing the sorted names, also when the last line had no terminator.
C14_AppendOnMissing ==
    (/\ calls # <<>> /\ Last.op = "update" /\ ~Last.raised
     /\ DeclNodes(Last.before) = {})
        => /\ Last.changed
           /\ Last.reason = "None"
           /\ Last.written <=> ~Last.dry_run
           /\ Last.written => AppendedAsStatement(Last)

\* the first __all__ assignment of a text
FirstDecl(code) ==
    CHOOSE node \in DeclNodes(code) :
        \A other \in DeclNodes(code) : node.first <= other.first

\* the value of a statement is a literal list whose elements are all
\* constant strings
ListOfStrings(node) ==
    /\ node.value.kind = "List"
    /\ \A k \in DOMAIN node.value.elts :
            node.value.elts[k].const /\ node.value.elts[k].str

\* C15. Malformed existing declaration: extract_current_all returns null
\* whenever there is no __all__ statement or its value is not a literal
\* list or tuple whose elements are all constant strings (a call, a name, a
\* list with a non-constant or a non-string element), and the full element
\* list otherwise.
C15_MalformedGivesNull ==
    (calls # <<>> /\ Last.op = "extract") =>
        IF DeclNodes(Last.before) # {} /\ ListOfStrings(FirstDecl(Last.before))
        THEN /\ ~Last.none
             /\ Last.list = [k \in DOMAIN FirstDecl(Last.before).value.elts |->
                                FirstDecl(Last.before).value.elts[k].tok]
        ELSE Last.none

\* the reasons of a file that ends in Conflict, skip-wildcard or skip-ignore
StopReasons == {"Multiple __all__ assignments", "wildcard", "ignore"}

\* a text has a declaration that lists exactly the given names
Declares(code, names) ==
    \E node \in DeclNodes(code) :
        [k \in DOMAIN node.value.elts |-> node.value.elts[k].tok]
            = [k \in DOMAIN names |-> Quote(names[k])]

\* C16. Batch continuation: main returns exactly one result record per file
\* in the list of files to process, in that order; a file that ends in
\* Conflict, skip-wildcard or skip-ignore is left unmodified, and every
\* later file of the list is still processed, with the result it has when
\* processed alone, and written if its declaration is out of date and
\* dry_run is false.
C16_BatchContinuation ==
    (/\ calls # <<>> /\ Last.op = "main" /\ ~Last.raised
     /\ ~(Last.path = 0 /\ ~Last.pyproject))
        => /\ Len(Last.results) = Len(Last.todo)
           /\ \A i \in DOMAIN Last.results :
                LET rec == Last.results[i]
                    f == Last.todo[i]
                    alone == process_file(Last.before[f], Last.dry_run)
                IN  /\ rec.file = f
                    /\ rec.status = alone.status
                    /\ rec.reason = alone.reason
                    /\ rec.new_all = alone.new_all
                    /\ (rec.reason \in StopReasons \/ Last.dry_run
                        \/ rec.status = "unchanged")
                            => Last.after[f] = Last.before[f]
                    /\ (rec.status = "changed" /\ ~Last.dry_run)
                            => /\ Last.after[f] # Last.before[f]
                               /\ Declares(Last.after[f], rec.new_all)
           /\ \A f \in DOMAIN Last.before :
                (\A i \in DOMAIN Last.todo : Last.todo[i] # f)
                    => Last.after[f] = Last.before[f]

\* a batch of three files was run, not dry: the first ended in Conflict,
\* the second was skipped, the third was out of date and was written
C16_Witness ==
    /\ calls # <<>> /\ Last.op = "main" /\ ~Last.raised /\ ~Last.dry_run
    /\ Last.path = 0
    /\ Len(Last.results) = 3
    /\ Last.results[1].reason = "Multiple __all__ assignments"
    /\ Last.results[2].status = "skip"
    /\ Last.results[3].status = "changed"
    /\ Last.after[3] # Last.before[3]
    /\ Last.after[1] = Last.before[1] /\ Last.after[2] = Last.before[2]

\* the top-level assignment statements of a text whose single target is
\* __all__
SingleTargetDecls(code) ==
    LET body == ast_parse(code).body
    IN  {body[i] : i \in {j \in DOMAIN body :
            body[j].type = "Assign" /\ body[j].targets = <<DUNDER_ALL>>}}

\* C17. Declaration localization: a top-level assignment counts as an
\* export declaration exactly when its single target is __all__, and counts
\* once: a Conflict is reported iff there are two or more such statements
\* (so not for `__all__ = __all__ = [...]` alone), and a text without such a
\* statement gets the declaration appended, a chained assignment such as
\* `x = __all__ = [...]` being left as it is.
C17_SingleTarget ==
    (calls # <<>> /\ Last.op = "update" /\ ~Last.raised) =>
        LET decls == SingleTargetDecls(Last.before)
        IN  /\ (Last.reason = "Multiple __all__ assignments")
                    <=> Cardinality(decls) >= 2
            /\ decls = {} =>
                    /\ Last.changed
                    /\ Last.written => /\ IsPrefix(Last.before, Last.after)
                                       /\ Last.after # Last.before

\* C19. Dry-run decision equivalence: on the same initial content (and,
\* for update_dunder_all, the same name set), the call with dry_run = true
\* returns what the call with dry_run = false returns: the same (changed,
\* reason) pair, and for process_file the same status, reason and new_all;
\* both raise or neither does.
C19_DryRunSameDecision ==
    \A i, j \in DOMAIN calls :
        (/\ calls[i].op \in {"update", "process"}
         /\ calls[i].op = calls[j].op
         /\ calls[i].before = calls[j].before
         /\ calls[i].dry_run /\ ~calls[j].dry_run)
            => /\ calls[i].raised = calls[j].raised
               /\ calls[i].changed = calls[j].changed
               /\ calls[i].reason = calls[j].reason
               /\ calls[i].status = calls[j].status
               /\ calls[i].names = calls[j].names

\* a file with a declaration was processed on a dry run and then for good:
\* both calls report the change, with names, and only the second wrote
C19_Witness ==
    /\ Len(calls) = 2
    /\ calls[1].op = "process" /\ calls[2].op = "process"
    /\ calls[1].dry_run /\ ~calls[2].dry_run
    /\ calls[1].before = calls[2].before
    /\ calls[1].status = "changed" /\ calls[2].status = "changed"
    /\ calls[1].names # <<>>
    /\ ~calls[1].written /\ calls[2].written
    /\ DeclNodes(calls[1].before) # {}

====
